---- MODULE Spec2Model ----
(***************************************************************************)
(* cashferatu-cli: the Monte Carlo cash-flow simulation engine.            *)
(*                                                                         *)
(*   src/src/util/Date.ts, src/src/Util.ts      jitter and day arithmetic  *)
(*   src/src/services/Prediction-Service.ts     generator, grouping,       *)
(*                                              aggregator, orchestration  *)
(*   src/src/services/Percentiles.ts            percentile reducer         *)
(*   src/src/services/Simulation-Service.ts     report assembly            *)
(*                                                                         *)
(* Numbers.  Amounts are JavaScript numbers; here an amount is an integer  *)
(* count of units of 1/Milli thousandths (0.0001 with Milli = 10), so that *)
(* the effect of toFixed(3) in GetPercentile is visible.  Instants are     *)
(* integer counts of ticks, TicksPerDay ticks to a day.  JavaScript arrays *)
(* are 0-based, sequences here are 1-based: array index d is sequence      *)
(* index d + 1.  An optional value is <<>> (undefined) or <<v>>.           *)
(***************************************************************************)
EXTENDS Integers, Sequences, FiniteSets, TLC

\* ---------------------------------------------------------------- bounds
MaxRunCount == 3    \* largest runCount option
MaxRunLength == 2   \* largest runLength option
MaxNow == 5         \* last instant (in ticks) the clock reaches
MaxSample == 3      \* most runs handed to the reducer on its own
MaxKeys == 2        \* most Random.make keys compared with each other

\* ------------------------------------------------------- units of measure
Milli == 10         \* units in 0.001: the grain of toFixed(3)
TicksPerDay == 4    \* clock ticks in one day (Duration.toDays divides by a day)
RandRes == 4        \* Random.next yields r = k / RandRes, k in 0..RandRes-1

None == <<>>
Some(v) == <<v>>
\* a ?? b
Coalesce(a, b) == IF a = None THEN b ELSE a[1]

Abs(x) == IF x < 0 THEN -x ELSE x

RECURSIVE SumSeq(_)
SumSeq(s) == IF s = <<>> THEN 0 ELSE Head(s) + SumSeq(Tail(s))

\* Math.round(numer / denom), denom > 0: the nearest integer, ties towards
\* +infinity (Math.round(-0.5) = -0, Math.round(0.5) = 1).
MathRound(numer, denom) == (2 * numer + denom) \div (2 * denom)

\* parseFloat((numer / denom).toFixed(3)) in units: the nearest multiple of
\* Milli, ties away from zero (toFixed works on the absolute value).
ToFixed3(numer, denom) ==
    LET n == (2 * Abs(numer) + denom * Milli) \div (2 * denom * Milli)
    IN  IF numer < 0 THEN -(n * Milli) ELSE n * Milli

\* Array.prototype.sort((a, b) => a - b): ascending numeric order.
RECURSIVE Insert(_, _)
Insert(x, s) ==
    IF s = <<>> THEN <<x>>
    ELSE IF x <= Head(s) THEN <<x>> \o s
    ELSE <<Head(s)>> \o Insert(x, Tail(s))

RECURSIVE SortAsc(_)
SortAsc(s) == IF s = <<>> THEN <<>> ELSE Insert(Head(s), SortAsc(Tail(s)))

\* ------------------------------------------------------ Percentiles.ts
\* GetPercentile: idx = (percentile / 100) * (sorted.length - 1), kept here as
\* idx100 = 100 * idx.  The interpolated branch is rounded by toFixed(3); the
\* branch lower === upper returns the order statistic as it is.
GetPercentileNearestRank(sorted, percentile) ==
    LET idx100 == percentile * (Len(sorted) - 1)
    IN  sorted[MathRound(idx100, 100) + 1]

GetPercentile(sorted, percentile) ==
    LET idx100 == percentile * (Len(sorted) - 1)
        lower == idx100 \div 100
        weight100 == idx100 - 100 * lower
        upper == IF weight100 = 0 THEN lower ELSE lower + 1
        result100 == sorted[lower + 1] * (100 - weight100)
                     + sorted[upper + 1] * weight100
    IN  IF lower = upper THEN sorted[lower + 1] ELSE ToFixed3(result100, 100)

\* balancesAtDay of ReduceToPercentiles: the sorted sample of one day.
BalancesAtDay(rs, dayIndex) ==
    SortAsc([r \in 1..Len(rs) |-> rs[r].balanceSeries[dayIndex + 1]])

ReduceToPercentilesOneBased(rs) ==
    LET runLength == IF rs = <<>> THEN 0 ELSE Len(rs[1].balanceSeries)
    IN  [i \in 1..runLength |->
            LET balancesAtDay == BalancesAtDay(rs, i - 1)
            IN  [day |-> i,
                 p10 |-> GetPercentile(balancesAtDay, 10),
                 p25 |-> GetPercentile(balancesAtDay, 25),
                 p50 |-> GetPercentile(balancesAtDay, 50),
                 p75 |-> GetPercentile(balancesAtDay, 75),
                 p90 |-> GetPercentile(balancesAtDay, 90)]]

ReduceToPercentiles(rs) ==
    LET runLength == IF rs = <<>> THEN 0 ELSE Len(rs[1].balanceSeries)
    IN  [i \in 1..runLength |->
            LET balancesAtDay == BalancesAtDay(rs, i - 1)
            IN  [day |-> i - 1,
                 p10 |-> GetPercentile(balancesAtDay, 10),
                 p25 |-> GetPercentile(balancesAtDay, 25),
                 p50 |-> GetPercentile(balancesAtDay, 50),
                 p75 |-> GetPercentile(balancesAtDay, 75),
                 p90 |-> GetPercentile(balancesAtDay, 90)]]

\* ------------------------------------------------- strings and Random
\* A string is the sequence of its characters, so that the key of
\* Random.make can be built and hashed as the code builds it.
Alphabet == <<"0", "1", "2", "3", "4", "5", "6", "7", "8", "9", "-",
              "a", "b", "c", "s">>

CharCode(c) == CHOOSE i \in 1..Len(Alphabet) : Alphabet[i] = c

\* Number.prototype.toString of an integer.
RECURSIVE ToChars(_)
ToChars(n) ==
    IF n < 0 THEN <<"-">> \o ToChars(-n)
    ELSE IF n < 10 THEN <<Alphabet[n + 1]>>
    ELSE ToChars(n \div 10) \o <<Alphabet[(n % 10) + 1]>>

\* Random.make(key): a generator whose state is a hash of the key.
RECURSIVE HashChars(_, _)
HashChars(h, cs) ==
    IF cs = <<>> THEN h
    ELSE HashChars((h * 31 + CharCode(Head(cs))) % 64, Tail(cs))

RandomMake(key) == HashChars(7, key)

\* Random.next: steps the generator; r = k / RandRes with k in 0..RandRes-1.
RandomNext(rng) ==
    LET s == (rng * 5 + 3) % 64
    IN  [r |-> (s * RandRes) \div 64, rng |-> s]

\* ------------------------------------------------------------ Util.ts
\* applyValueJitter, given the sample r = k / RandRes it drew:
\*   randomFactor = 2 * (p / 100) * r - p / 100;  v + v * randomFactor.
\* The amounts and percentages of the model make the quotient exact.
applyValueJitterDoubled(v, maxVariancePercent, k) ==
    v + (2 * v * maxVariancePercent * (2 * k - RandRes)) \div (100 * RandRes)

applyValueJitter(v, maxVariancePercent, k) ==
    v + (v * maxVariancePercent * (2 * k - RandRes)) \div (100 * RandRes)

\* randomDays of applyDateJitter, given the sample r = k / RandRes it drew
\* and maxDayVariance = numer / denom (a JavaScript number, denom > 0):
\*   Math.round(2 * m * r - m).
randomDaysDoubled(numer, denom, k) ==
    MathRound(2 * numer * (2 * k - RandRes), RandRes * denom)

randomDays(numer, denom, k) ==
    MathRound(numer * (2 * k - RandRes), RandRes * denom)

\* applyDateJitter with a whole maxDayVariance: DateTime.add(v, {days}).
applyDateJitter(v, maxDayVariance, k) ==
    v + randomDays(maxDayVariance, 1, k) * TicksPerDay

\* Truncation towards zero in the place of Math.round.
TruncatedDaysBetween(a, b) ==
    IF b >= a THEN (b - a) \div TicksPerDay ELSE -((a - b) \div TicksPerDay)

\* daysBetweenDates(a, b) rounded: the code rounds the fractional number of
\* days Duration.toDays gives, (b - a) / TicksPerDay.
RoundedDaysBetween(a, b) == MathRound(b - a, TicksPerDay)

\* ------------------------------------------- Prediction-Service.ts
Max(a, b) == IF a < b THEN b ELSE a

\* The key of Random.make: `${s}-${run}-${event.ID}`.
Key(s, run, ID) == s \o <<"-">> \o ToChars(run) \o <<"-">> \o ID

\* One iteration of the inner loop of GeneratePredictionsFn; dateNow is what
\* Date.now() returns in this iteration (read only when seed is undefined).
PredictionForUnseeded(event, run, cfg, dateNow) ==
    LET s == ToChars(dateNow)
        rng == RandomMake(Key(s, run, event.ID))
        first == RandomNext(rng)
        second == RandomNext(first.rng)
    IN  [run |-> run,
         occursOn |-> applyDateJitter(event.date, cfg.dateVarianceDays, second.r),
         value |-> applyValueJitter(event.value, cfg.valueVariancePct, first.r)]

PredictionForDrawsOnDemand(event, run, cfg, dateNow) ==
    LET s == Coalesce(cfg.seed, ToChars(dateNow))
        rng == RandomMake(Key(s, run, event.ID))
        first == RandomNext(rng)
        second == RandomNext(first.rng)
    IN  [run |-> run,
         occursOn |->
             applyDateJitter(event.date, cfg.dateVarianceDays,
                             IF cfg.valueVariancePct = 0
                             THEN first.r ELSE second.r),
         value |->
             IF cfg.valueVariancePct = 0 THEN event.value
             ELSE applyValueJitter(event.value, cfg.valueVariancePct, first.r)]

PredictionForKeyedByCount(event, run, cfg, dateNow) ==
    LET s == Coalesce(cfg.seed, ToChars(dateNow))
        rng == RandomMake(Key(s, cfg.runCount - run, event.ID))
        first == RandomNext(rng)
        second == RandomNext(first.rng)
    IN  [run |-> run,
         occursOn |-> applyDateJitter(event.date, cfg.dateVarianceDays, second.r),
         value |-> applyValueJitter(event.value, cfg.valueVariancePct, first.r)]

PredictionFor(event, run, cfg, dateNow) ==
    LET s == Coalesce(cfg.seed, ToChars(dateNow))
        rng == RandomMake(Key(s, run, event.ID))
        first == RandomNext(rng)
        second == RandomNext(first.rng)
    IN  [run |-> run,
         occursOn |-> applyDateJitter(event.date, cfg.dateVarianceDays, second.r),
         value |-> applyValueJitter(event.value, cfg.valueVariancePct, first.r)]

\* The past-event test of GeneratePredictionsFn: if (event.date < today) continue
IsSkippedNever(event, today) == FALSE

IsSkipped(event, today) == event.date < today

\* The loops of GeneratePredictionsFn over evs; i0 iterations came before,
\* dateNows[i] is the reading of Date.now() in iteration i.
RECURSIVE GenerateLoopFromOne(_, _, _, _)
GenerateLoopFromOne(evs, i0, cfg, dateNows) ==
    IF evs = <<>> THEN <<>>
    ELSE LET event == Head(evs)
             n == Max(cfg.runCount, 0)
         IN  IF IsSkipped(event, cfg.today)
             THEN GenerateLoopFromOne(Tail(evs), i0, cfg, dateNows)
             ELSE [j \in 1..n |->
                      PredictionFor(event, j, cfg, dateNows[i0 + j])]
                  \o GenerateLoopFromOne(Tail(evs), i0 + n, cfg, dateNows)

RECURSIVE GenerateLoop(_, _, _, _)
GenerateLoop(evs, i0, cfg, dateNows) ==
    IF evs = <<>> THEN <<>>
    ELSE LET event == Head(evs)
             n == Max(cfg.runCount, 0)
         IN  IF IsSkipped(event, cfg.today)
             THEN GenerateLoop(Tail(evs), i0, cfg, dateNows)
             ELSE [j \in 1..n |->
                      PredictionFor(event, j - 1, cfg, dateNows[i0 + j])]
                  \o GenerateLoop(Tail(evs), i0 + n, cfg, dateNows)

\* The number of iterations of the inner loop.
Iterations(evs, runCount, today) ==
    Len(SelectSeq(evs, LAMBDA e : ~IsSkipped(e, today))) * Max(runCount, 0)

GeneratePredictionsFn(cfg, dateNows) == GenerateLoop(cfg.events, 0, cfg, dateNows)

\* GroupPredictionsByRunIndexFn: Map<run, Prediction[]>, one key per run
\* index present, members in input order.
GroupPredictionsNewestFirst(preds) ==
    [r \in {preds[i].run : i \in DOMAIN preds} |->
        LET members == SelectSeq(preds, LAMBDA p : p.run = r)
        IN  [k \in 1..Len(members) |-> members[Len(members) + 1 - k]]]

GroupPredictionsByRunIndexFn(preds) ==
    [r \in {preds[i].run : i \in DOMAIN preds} |->
        SelectSeq(preds, LAMBDA p : p.run = r)]

\* byRun.get(runIndex) ?? []
PredsOfRunFirstOnly(groups, runIndex) ==
    IF runIndex \in DOMAIN groups THEN <<groups[runIndex][1]>> ELSE <<>>

PredsOfRun(groups, runIndex) ==
    IF runIndex \in DOMAIN groups THEN groups[runIndex] ELSE <<>>

\* dayOffsetPairs of one run: nows[i0 + i] is the reading of DateTime.now
\* inside daysFromToday for the i-th prediction of the run.
DayOffsetPairs(preds, i0, nows) ==
    [i \in 1..Len(preds) |->
        [dayOffset |-> RoundedDaysBetween(nows[i0 + i], preds[i].occursOn),
         value |-> preds[i].value]]

\* The filter of ComputeBalanceForRunFn.
InWindow(e, runLength) == e.dayOffset >= 0 /\ e.dayOffset < runLength

\* filter(...).reduce(acc[dayOffset] += value, Array(runLength).fill(0))
DeltasClamped(pairs, runLength) ==
    [i \in 1..runLength |->
        SumSeq([j \in 1..Len(pairs) |->
                   IF Max(0, IF pairs[j].dayOffset < runLength
                             THEN pairs[j].dayOffset ELSE runLength - 1) = i - 1
                   THEN pairs[j].value ELSE 0])]

DeltasOneMore(pairs, runLength) ==
    LET kept == SelectSeq(pairs, LAMBDA e : InWindow(e, runLength))
    IN  [i \in 1..(runLength + 1) |->
            SumSeq([j \in 1..Len(kept) |->
                       IF kept[j].dayOffset = i - 1 THEN kept[j].value ELSE 0])]

Deltas(pairs, runLength) ==
    LET kept == SelectSeq(pairs, LAMBDA e : InWindow(e, runLength))
    IN  [i \in 1..runLength |->
            SumSeq([j \in 1..Len(kept) |->
                       IF kept[j].dayOffset = i - 1 THEN kept[j].value ELSE 0])]

\* The cumulation loop: balanceSeries[0] += startingBalance, then
\* balanceSeries[i] += balanceSeries[i - 1].
RECURSIVE CumulateEveryDay(_, _, _)
CumulateEveryDay(series, i, startingBalance) ==
    IF i >= Len(series) THEN series
    ELSE CumulateEveryDay(
             [series EXCEPT ![i + 1] =
                 @ + startingBalance + (IF i = 0 THEN 0 ELSE series[i])],
             i + 1, startingBalance)

RECURSIVE Cumulate(_, _, _)
Cumulate(series, i, startingBalance) ==
    IF i >= Len(series) THEN series
    ELSE Cumulate(
             [series EXCEPT ![i + 1] =
                 @ + (IF i = 0 THEN startingBalance ELSE series[i])],
             i + 1, startingBalance)

BalanceSeries(pairs, runLength, startingBalance) ==
    Cumulate(Deltas(pairs, runLength), 0, startingBalance)

\* first index (0-based, flattened over runs in order) of a run's predictions
RECURSIVE OffsetOfRun(_, _)
OffsetOfRun(groups, runIndex) ==
    IF runIndex <= 0 THEN 0
    ELSE OffsetOfRun(groups, runIndex - 1) + Len(PredsOfRun(groups, runIndex - 1))

\* DefaultSimulationConfig
DefaultSimulationConfig ==
    [runLength |-> 60, runCount |-> 20, dateVarianceDays |-> 10,
     valueVariancePct |-> 20]

\* The default of the startingBalance parameter of ComputeBalanceForRunFn,
\* which an undefined STARTING_BALANCE falls back to.
StartingBalanceDefault == 0

\* The option resolution at the head of PredictionsService.generate.
ResolveAllOrNothing(o) ==
    IF \E f \in DOMAIN o : o[f] = None
    THEN [runCount |-> DefaultSimulationConfig.runCount,
          runLength |-> DefaultSimulationConfig.runLength,
          valueVariancePct |-> DefaultSimulationConfig.valueVariancePct,
          dateVarianceDays |-> DefaultSimulationConfig.dateVarianceDays,
          startingBalance |-> StartingBalanceDefault]
    ELSE [f \in DOMAIN o |-> o[f][1]]

Resolve(o) ==
    [runCount |-> Coalesce(o.runCount, DefaultSimulationConfig.runCount),
     runLength |-> Coalesce(o.runLength, DefaultSimulationConfig.runLength),
     valueVariancePct |->
         Coalesce(o.valueVariancePct, DefaultSimulationConfig.valueVariancePct),
     dateVarianceDays |->
         Coalesce(o.dateVarianceDays, DefaultSimulationConfig.dateVarianceDays),
     startingBalance |->
         Coalesce(o.startingBalance, StartingBalanceDefault)]

\* ------------------------------------------------------------- inputs
\* CashEvent records (ID, label, value, date); dates are midnights, as
\* DateFromString gives for a date-only string.  Amounts are multiples of
\* 4 units so that the jittered amounts are exact.
EventPool ==
    { [ID |-> <<"a">>, label |-> "rent", value |-> 8, date |-> TicksPerDay],
      [ID |-> <<"b">>, label |-> "tax", value |-> -20, date |-> TicksPerDay],
      [ID |-> <<"c">>, label |-> "pay", value |-> 40, date |-> 0] }

RECURSIVE SeqsUpTo(_, _)
SeqsUpTo(S, n) ==
    IF n = 0 THEN {<<>>}
    ELSE LET shorter == SeqsUpTo(S, n - 1)
         IN  shorter \cup {Append(s, x) : s \in shorter, x \in S}

\* The event lists: the events of the pool, each at most once, in any order.
EventLists ==
    {s \in SeqsUpTo(EventPool, Cardinality(EventPool)) :
        \A i, j \in DOMAIN s : s[i] = s[j] => i = j}

\* SimulationOptions as the CLI or a caller builds them.
\* Either no variance at all or both variances.
OptionSets ==
    {o \in [runCount : {Some(n) : n \in 0..MaxRunCount},
            runLength : {Some(n) : n \in {-1, 0, 1, MaxRunLength}},
            dateVarianceDays : {Some(0), Some(1)},
            valueVariancePct : {Some(0), Some(50)},
            startingBalance : {None, Some(5)}] :
        (o.dateVarianceDays = Some(0)) = (o.valueVariancePct = Some(0))}

\* The menu of the repeated call: a seed is given.
RepeatOptionSets ==
    {o \in OptionSets : /\ o.runCount \in {Some(1), Some(MaxRunCount)}
                        /\ o.runLength = Some(MaxRunLength)
                        /\ o.startingBalance = None}

Seeds == {None, Some(<<"s">>)}

\* {}: every option left unset.
NoOptions ==
    [runCount |-> None, runLength |-> None, dateVarianceDays |-> None,
     valueVariancePct |-> None, startingBalance |-> None]

\* -------------------------------------------------------------- state
VARIABLES
    now,                \* the clock (DateTime.now, Date.now), in ticks
    pc,                 \* where the orchestration call stands
    events, opts, seed, \* the arguments of SimulationService.generate
    runDate,            \* now as read at the head of SimulationService.generate
    today,              \* today as read by GeneratePredictionsFn
    predictions,        \* the result of GeneratePredictionsFn
    byRun,              \* the result of GroupPredictionsByRunIndexFn
    dayOffsetPairs,     \* per run, the dayOffsetPairs of ComputeBalanceForRunFn
    runs,               \* the runs PredictionsService.generate returns
    forecast,           \* the result of ReduceToPercentiles
    report,             \* the SimulationReport returned, None before
    error,              \* the failure of the call, None if none
    steady,             \* no clock tick was seen since the call began
    prev,               \* the outcome of the previous call with these arguments
    jitter,             \* one use of the jitter functions on their own
    keys,               \* the Random.make keys built, with what they were built from
    disk,               \* the file system: its directories and files
    io                  \* the call of an infra function: arguments and outcome

vars == <<now, pc, events, opts, seed, runDate, today, predictions, byRun,
          dayOffsetPairs, runs, forecast, report, error, steady, prev,
          jitter, keys, disk, io>>

\* No key recorded, an empty file system, no infra call.
NoDisk == [dirs |-> {}, files |-> {}]
NoCall == [op |-> "none"]
Infra == keys = {} /\ disk = NoDisk /\ io = NoCall

\* The jitter functions unused.
NoJitter ==
    [v |-> 0, p |-> 0, d |-> 0, numer |-> 0, denom |-> 1, rng |-> 0,
     draws |-> 0, valueR |-> None, value |-> None, dateR |-> None,
     date |-> None]

cfgOf(o, sd, evs, td) ==
    [events |-> evs, runCount |-> Resolve(o).runCount,
     dateVarianceDays |-> Resolve(o).dateVarianceDays,
     valueVariancePct |-> Resolve(o).valueVariancePct,
     seed |-> sd, today |-> td]

\* The readings of a clock over n consecutive reads during which it ticks
\* at most once: the first cut reads see t, the later ones t + 1.
Readings(n, t, cut) == [i \in 1..n |-> IF i <= cut THEN t ELSE t + 1]

Blank ==
    /\ runDate = 0 /\ today = 0
    /\ predictions = <<>> /\ byRun = <<>> /\ dayOffsetPairs = <<>>
    /\ runs = <<>> /\ forecast = <<>>
    /\ report = None /\ error = None

Init ==
    /\ now = 0
    /\ pc = "idle"
    /\ events = <<>> /\ opts = NoOptions /\ seed = None
    /\ steady = TRUE /\ prev = None
    /\ jitter = NoJitter /\ Infra
    /\ Blank

\* --------------------------------------------------------- operations
\* ComputeBalanceForRunFn, first half: the dayOffsetPairs of every run, the
\* runs taken in order 0..runCount-1 and nows read in that order.
AllDayOffsetPairs(groups, runCount, nows) ==
    [i \in 1..Max(runCount, 0) |->
        DayOffsetPairs(PredsOfRun(groups, i - 1), OffsetOfRun(groups, i - 1), nows)]

\* ComputeBalanceForRunFn, second half: one balance series per run.
ComputeBalanceForRunFnLazy(pairsList, runLength, startingBalance) ==
    [i \in 1..Len(pairsList) |->
        IF i = 1 THEN BalanceSeries(pairsList[i], runLength, startingBalance)
        ELSE <<>>]

ComputeBalanceForRunFn(pairsList, runLength, startingBalance) ==
    [i \in 1..Len(pairsList) |->
        BalanceSeries(pairsList[i], runLength, startingBalance)]

\* The runs PredictionsService.generate builds from byRun and the series.
MakeRunsOneBased(groups, balanceSeriesList, runCount) ==
    [i \in 1..Max(runCount, 0) |->
        [runIndex |-> i,
         predictions |-> PredsOfRun(groups, i - 1),
         balanceSeries |-> balanceSeriesList[i]]]

MakeRuns(groups, balanceSeriesList, runCount) ==
    [i \in 1..Max(runCount, 0) |->
        [runIndex |-> i - 1,
         predictions |-> PredsOfRun(groups, i - 1),
         balanceSeries |-> balanceSeriesList[i]]]

\* SimulationService.generate is called: it reads the clock for runDate and
\* calls PredictionsService.generate.
Start(evs, o, sd) ==
    /\ pc = "idle"
    /\ events' = evs /\ opts' = o /\ seed' = sd
    /\ runDate' = now
    /\ pc' = "generate"
    /\ steady' = TRUE /\ prev' = None
    /\ UNCHANGED <<jitter, keys, disk, io, now, today, predictions, byRun, dayOffsetPairs, runs,
                   forecast, report, error>>

\* GeneratePredictionsFn, then GroupPredictionsByRunIndexFn.  today is read
\* once; Date.now() is read in every iteration when no seed is given, and
\* the clock may tick between two iterations.
Generate ==
    /\ pc = "generate"
    /\ LET n == Iterations(events, Resolve(opts).runCount, now)
       IN  \E cut \in 0..n :
             /\ cut < n => (seed = None /\ steady /\ now < MaxNow)
             /\ today' = now
             /\ predictions' =
                    GeneratePredictionsFn(cfgOf(opts, seed, events, now),
                                          Readings(n, now, cut))
             /\ now' = IF cut < n THEN now + 1 ELSE now
             /\ steady' = (steady /\ cut = n)
    /\ byRun' = GroupPredictionsByRunIndexFn(predictions')
    /\ pc' = "compute"
    /\ UNCHANGED <<jitter, keys, disk, io, events, opts, seed, runDate, dayOffsetPairs, runs, forecast,
                   report, error, prev>>

\* ComputeBalanceForRunFn and the assembly of the runs.  Every prediction
\* reads the clock (daysFromToday); the clock may tick between two reads.
Compute ==
    /\ pc = "compute"
    /\ ~(Resolve(opts).runCount >= 1 /\ Resolve(opts).runLength < 0)
    /\ LET r == Resolve(opts)
           n == Len(predictions)
       IN  \E cut \in 0..n :
             /\ cut < n => (steady /\ now < MaxNow)
             /\ dayOffsetPairs' =
                    AllDayOffsetPairs(byRun, r.runCount, Readings(n, now, cut))
             /\ runs' = MakeRuns(byRun,
                            ComputeBalanceForRunFn(dayOffsetPairs', r.runLength,
                                                   r.startingBalance),
                            r.runCount)
             /\ now' = IF cut < n THEN now + 1 ELSE now
             /\ steady' = (steady /\ cut = n)
    /\ pc' = "reduce"
    /\ UNCHANGED <<jitter, keys, disk, io, events, opts, seed, runDate, today, predictions, byRun,
                   forecast, report, error, prev>>

\* Array(runLength) with a negative runLength throws in the first run.
ComputeThrows ==
    /\ pc = "compute"
    /\ Resolve(opts).runCount >= 1 /\ Resolve(opts).runLength < 0
    /\ error' = Some("RangeError: Invalid array length")
    /\ pc' = "failed"
    /\ UNCHANGED <<jitter, keys, disk, io, now, events, opts, seed, runDate, today, predictions, byRun,
                   dayOffsetPairs, runs, forecast, report, steady, prev>>

\* ReduceToPercentiles and the SimulationReport of SimulationService.generate.
Reduce ==
    /\ pc = "reduce"
    /\ forecast' = ReduceToPercentiles(runs)
    /\ report' = Some([runs |-> runs, forecast |-> forecast',
                       cashEvents |-> events,
                       meta |-> [runCount |-> Resolve(opts).runCount,
                                 runLength |-> Resolve(opts).runLength,
                                 runDate |-> runDate]])
    /\ pc' = "done"
    /\ UNCHANGED <<jitter, keys, disk, io, now, events, opts, seed, runDate, today, predictions, byRun,
                   dayOffsetPairs, runs, error, steady, prev>>

\* The clock advances: between calls, or between the generator and the
\* aggregator.  A tick is a quarter of a day and a call is short: at most
\* one tick falls between the first and the last clock reading of a call
\* (steady is false from then on).
Tick ==
    /\ pc \in {"idle", "compute"}
    /\ pc = "compute" => steady
    /\ now < MaxNow
    /\ now' = now + 1
    /\ steady' = (steady /\ pc # "compute")
    /\ UNCHANGED <<jitter, keys, disk, io, pc, events, opts, seed, runDate, today, predictions, byRun,
                   dayOffsetPairs, runs, forecast, report, error, prev>>

\* The caller invokes SimulationService.generate again with the same
\* arguments; the first outcome is remembered.
Rerun ==
    /\ pc = "done" /\ prev = None
    /\ prev' = Some([runs |-> runs, forecast |-> forecast, today |-> today,
                     dayOffsetPairs |-> dayOffsetPairs])
    /\ runDate' = now
    /\ today' = 0
    /\ predictions' = <<>> /\ byRun' = <<>> /\ dayOffsetPairs' = <<>>
    /\ runs' = <<>> /\ forecast' = <<>> /\ report' = None
    /\ steady' = TRUE
    /\ pc' = "generate"
    /\ UNCHANGED <<jitter, keys, disk, io, now, events, opts, seed, error>>

\* The call is over; the next one starts from scratch.
Return ==
    /\ pc \in {"done", "failed"}
    /\ pc' = "idle"
    /\ events' = <<>> /\ opts' = NoOptions /\ seed' = None
    /\ runDate' = 0 /\ today' = 0
    /\ predictions' = <<>> /\ byRun' = <<>> /\ dayOffsetPairs' = <<>>
    /\ runs' = <<>> /\ forecast' = <<>> /\ report' = None /\ error' = None
    /\ steady' = TRUE /\ prev' = None
    /\ UNCHANGED <<now, jitter, keys, disk, io>>

Next ==
    \/ \E evs \in EventLists, o \in OptionSets, sd \in Seeds : Start(evs, o, sd)
    \/ Generate
    \/ Compute
    \/ ComputeThrows
    \/ Reduce
    \/ Tick
    \/ Return

Spec == Init /\ [][Next]_vars

\* The same call made twice.
NextRepeat ==
    \/ \E evs \in EventLists, o \in RepeatOptionSets :
           Start(evs, o, Some(<<"s">>))
    \/ Generate
    \/ Compute
    \/ Reduce
    \/ Tick
    \/ Rerun
    \/ Return

SpecRepeat == Init /\ [][NextRepeat]_vars

\* --------------------------------------------- options left to the defaults
\* Every option independently unset or set; the events are those whose
\* amounts the default 20 % variance jitters exactly.
DefaultOptionSets ==
    [runCount : {None, Some(2)},
     runLength : {None, Some(1)},
     dateVarianceDays : {None, Some(0)},
     valueVariancePct : {None, Some(50)},
     startingBalance : {None, Some(5)}]

DefaultEventLists ==
    {s \in EventLists : \A i \in DOMAIN s : s[i].value % 20 = 0}

NextDefaults ==
    \/ \E evs \in DefaultEventLists, o \in DefaultOptionSets :
           Start(evs, o, Some(<<"s">>))
    \/ Generate
    \/ Compute
    \/ Reduce
    \/ Return

SpecDefaults == Init /\ [][NextDefaults]_vars

\* ------------------------------------------------ the reducer on its own
\* ReduceToPercentiles applied to runs of any content: up to MaxSample runs
\* of one day (or of none), the five runs of three days of the worked
\* example, 100 being 100 * 1000 * Milli units, and two runs of unequal length.
SampleValues == {-15, -4, 0, 6, 24, 100 * 1000 * Milli}

AsRuns(seriesList) ==
    [i \in 1..Len(seriesList) |->
        [runIndex |-> i - 1, predictions |-> <<>>, balanceSeries |-> seriesList[i]]]

ScenarioRuns ==
    LET u == 1000 * Milli
    IN  AsRuns(<< <<100 * u, 150 * u, 200 * u>>, <<200 * u, 250 * u, 300 * u>>,
                  <<300 * u, 350 * u, 400 * u>>, <<400 * u, 450 * u, 500 * u>>,
                  <<500 * u, 550 * u, 600 * u>> >>)

\* Runs of unequal length, the first one the shortest.
RaggedRuns == AsRuns(<< <<6, 24>>, <<0, -4, -15>> >>)

SampleRuns ==
    {AsRuns(sl) : sl \in SeqsUpTo({<<v>> : v \in SampleValues}, MaxSample)}
    \cup {AsRuns(sl) : sl \in SeqsUpTo({<<>>}, MaxSample)}
    \cup {ScenarioRuns, RaggedRuns}

InitReduce ==
    /\ now = 0
    /\ pc = "reduce"
    /\ events = <<>> /\ opts = NoOptions /\ seed = None
    /\ runDate = 0 /\ today = 0
    /\ predictions = <<>> /\ byRun = <<>> /\ dayOffsetPairs = <<>>
    /\ runs \in SampleRuns
    /\ forecast = <<>> /\ report = None /\ error = None
    /\ steady = TRUE /\ prev = None
    /\ jitter = NoJitter /\ Infra

NextReduce == Reduce

SpecReduce == InitReduce /\ [][NextReduce]_vars

\* ------------------------------------------------ the aggregator on its own
\* ComputeBalanceForRunFn applied to predictions of any run, date and order:
\* up to two predictions, from three quarters of a day before the clock
\* reading to past the end of the window.  The clock has ticked earlier in
\* the call (steady is false): every prediction reads the same instant.
AggregatePredictions ==
    SeqsUpTo([run : {0, 1},
              occursOn : (0 - 3)..(MaxRunLength * TicksPerDay + 1),
              value : {8, -20}], 2)

AggregateOptionSets ==
    {o \in OptionSets : /\ o.runCount \in {Some(1), Some(2)}
                        /\ o.runLength \in {Some(1), Some(MaxRunLength)}
                        /\ o.valueVariancePct = Some(0)
                        /\ o.startingBalance = None}

InitAggregate ==
    /\ now \in {0, 1}
    /\ pc = "compute"
    /\ events = <<>> /\ opts \in AggregateOptionSets /\ seed = None
    /\ runDate = 0 /\ today = 0
    /\ predictions \in AggregatePredictions
    /\ byRun = GroupPredictionsByRunIndexFn(predictions)
    /\ dayOffsetPairs = <<>> /\ runs = <<>> /\ forecast = <<>>
    /\ report = None /\ error = None
    /\ steady = FALSE /\ prev = None
    /\ jitter = NoJitter /\ Infra

NextAggregate == Compute \/ Reduce

SpecAggregate == InitAggregate /\ [][NextAggregate]_vars

\* ------------------------------------------------ the keys of Random.make
\* Keys built for seeds, run indices and event IDs of any call: a seed is
\* any string, an ID any non-empty trimmed string (CashEventId).
KeySeeds == {<<"s">>, <<"s", "-", "0">>, <<"s", "-", "1">>}
KeyIDs == {<<"a">>, <<"0", "-", "a">>, <<"1", "-", "a">>}
KeyRuns == {0, 1}

InitKeys ==
    /\ now = 0
    /\ pc = "keys"
    /\ events = <<>> /\ opts = NoOptions /\ seed = None
    /\ steady = TRUE /\ prev = None
    /\ jitter = NoJitter /\ Infra
    /\ Blank

\* One iteration of the generator builds the key of (s, run, ID).
MakeKey(s, run, ID) ==
    /\ pc = "keys" /\ Cardinality(keys) < MaxKeys
    /\ keys' = keys \cup {[seed |-> s, run |-> run, ID |-> ID,
                            key |-> Key(s, run, ID)]}
    /\ UNCHANGED <<now, pc, events, opts, seed, runDate, today, predictions,
                   byRun, dayOffsetPairs, runs, forecast, report, error,
                   steady, prev, jitter, disk, io>>

NextKeys == \E s \in KeySeeds, run \in KeyRuns, ID \in KeyIDs : MakeKey(s, run, ID)

SpecKeys == InitKeys /\ [][NextKeys]_vars

\* ------------------------------------------------ saving the report
\* saveSimulationReportToFS(report, location): the file system holds some
\* directories and files; location is a file name in a directory; the write
\* may also fail for a reason of the platform's.
SaveDirs == {"simulations", "var"}
SaveLocations == [dir : SaveDirs, name : {"simulation-1.json"}]
SaveContents == {"report 1", "report 2", "report 3"}
WriteFaults == {"none", "PermissionDenied", "BadArgument"}

\* fs.writeFileString(location, json): the failure, or "none" and the
\* file system after the write.
WriteFileString(d, location, json, fault) ==
    IF fault # "none" THEN [failure |-> fault, disk |-> d]
    ELSE IF location.dir \notin d.dirs THEN [failure |-> "NotFound", disk |-> d]
    ELSE [failure |-> "none",
          disk |-> [d EXCEPT !.files =
                       {f \in @ : f.path # location}
                       \cup {[path |-> location, content |-> json]}]]

\* The handler of a NotFound failure: the effect that makes the directory
\* and writes again is built and dropped, never run; the handler succeeds.
OnNotFound(d, location, json) == [outcome |-> "ok", disk |-> d]

saveSimulationReportToFS(d, json, location, fault) ==
    LET first == WriteFileString(d, location, json, fault)
    IN  CASE first.failure = "none" -> [outcome |-> "ok", disk |-> first.disk]
          [] first.failure = "NotFound" -> OnNotFound(d, location, json)
          [] OTHER -> [outcome |-> "SaveReportError", disk |-> d]

InitSave ==
    /\ now = 0
    /\ pc = "save"
    /\ events = <<>> /\ opts = NoOptions /\ seed = None
    /\ steady = TRUE /\ prev = None
    /\ jitter = NoJitter /\ keys = {} /\ io = NoCall
    /\ disk \in [dirs : SUBSET SaveDirs, files : {{}}]
    /\ Blank

\* saveSimulationReportToFS is called and returns or fails.
SaveReport(json, location, fault) ==
    /\ pc = "save" /\ io = NoCall
    /\ LET res == saveSimulationReportToFS(disk, json, location, fault)
       IN  /\ disk' = res.disk
           /\ io' = [op |-> "save", location |-> location, json |-> json,
                     outcome |-> res.outcome,
                     result |-> IF res.outcome = "ok" THEN Some(location)
                                ELSE None]
    /\ UNCHANGED <<now, pc, events, opts, seed, runDate, today, predictions,
                   byRun, dayOffsetPairs, runs, forecast, report, error,
                   steady, prev, jitter, keys>>

\* The command is over; the next one finds the file system as it was left.
Finish ==
    /\ pc \in {"save", "parse"} /\ io # NoCall
    /\ io' = NoCall
    /\ UNCHANGED <<now, pc, events, opts, seed, runDate, today, predictions,
                   byRun, dayOffsetPairs, runs, forecast, report, error,
                   steady, prev, jitter, keys, disk>>

NextSave ==
    \/ \E json \in SaveContents, location \in SaveLocations,
          fault \in WriteFaults : SaveReport(json, location, fault)
    \/ Finish

SpecSave == InitSave /\ [][NextSave]_vars

\* ------------------------------------------- the jitter functions on their own
\* applyValueJitter(v, p) and applyDateJitter(d, m) under a generator in any
\* state.  m = numer / denom is any number: whole, fractional or negative,
\* as the callers and the tests of the functions pass it.  The amounts and
\* percentages make v * p * r / 100 exact.
JitterInputs ==
    [v : {-20, 0, 8, 40}, p : {-50, 0, 50, 100}, d : {0},
     numer : {-50, -10, 0, 5, 6, 10, 20, 100}, denom : {10},
     rng : 0..63, draws : {0}, valueR : {None}, value : {None},
     dateR : {None}, date : {None}]

InitJitter ==
    /\ now = 0
    /\ pc = "jitter"
    /\ events = <<>> /\ opts = NoOptions /\ seed = None
    /\ steady = TRUE /\ prev = None
    /\ jitter \in JitterInputs /\ Infra
    /\ Blank

\* applyValueJitter(jitter.v, jitter.p) under the generator jitter.rng.
JitterValue ==
    /\ pc = "jitter" /\ jitter.value = None
    /\ LET n == RandomNext(jitter.rng)
       IN  jitter' = [jitter EXCEPT
                         !.valueR = Some(n.r),
                         !.value = Some(applyValueJitter(jitter.v, jitter.p, n.r)),
                         !.rng = n.rng,
                         !.draws = @ + 1]
    /\ UNCHANGED <<now, pc, events, opts, seed, runDate, today, predictions,
                   byRun, dayOffsetPairs, runs, forecast, report, error,
                   steady, prev, keys, disk, io>>

\* applyDateJitter(jitter.d, jitter.numer / jitter.denom) under jitter.rng.
JitterDate ==
    /\ pc = "jitter" /\ jitter.date = None
    /\ LET n == RandomNext(jitter.rng)
       IN  jitter' = [jitter EXCEPT
                         !.dateR = Some(n.r),
                         !.date = Some(jitter.d
                                       + randomDays(jitter.numer, jitter.denom,
                                                    n.r) * TicksPerDay),
                         !.rng = n.rng,
                         !.draws = @ + 1]
    /\ UNCHANGED <<now, pc, events, opts, seed, runDate, today, predictions,
                   byRun, dayOffsetPairs, runs, forecast, report, error,
                   steady, prev, keys, disk, io>>

NextJitter == JitterValue \/ JitterDate

SpecJitter == InitJitter /\ [][NextJitter]_vars

\* ------------------------------------------------------------ claims
RunCountOf == Resolve(opts).runCount
RunLengthOf == Resolve(opts).runLength
StartingBalanceOf == Resolve(opts).startingBalance
NoVariance ==
    Resolve(opts).dateVarianceDays = 0 /\ Resolve(opts).valueVariancePct = 0
NonPast(evs, t) == SelectSeq(evs, LAMBDA e : e.date >= t)

\* C1: with positive runCount and runLength the report has exactly runCount
\* runs, every balanceSeries and the forecast have length exactly runLength,
\* and forecast[d].day = d.
C1_ReportShape ==
    (pc = "done" /\ RunCountOf > 0 /\ RunLengthOf > 0) =>
        /\ Len(report[1].runs) = RunCountOf
        /\ \A i \in 1..RunCountOf :
               Len(report[1].runs[i].balanceSeries) = RunLengthOf
        /\ Len(report[1].forecast) = RunLengthOf
        /\ \A d \in 0..(RunLengthOf - 1) : report[1].forecast[d + 1].day = d

C1_Witness ==
    /\ pc = "done" /\ RunCountOf = MaxRunCount /\ RunLengthOf = MaxRunLength
    /\ predictions # <<>>
    /\ Len(report[1].forecast) = MaxRunLength

\* C2: an event whose date is before today produces no prediction in any
\* run: the predictions are those of the event list without its past
\* events, every run has one dayOffsetPair per event that is not past, and
\* the past events are still echoed in report.cashEvents.
C2_PastEventsSkipped ==
    (pc \in {"compute", "reduce", "done"}) =>
        LET kept == NonPast(events, today)
            n == Len(kept) * Max(RunCountOf, 0)
        IN  /\ Len(predictions) = n
            /\ \E cut \in 0..n :
                   predictions =
                       GeneratePredictionsFn(cfgOf(opts, seed, kept, today),
                                             Readings(n, today, cut))
            /\ pc \in {"reduce", "done"} =>
                   \A i \in 1..Len(runs) :
                       /\ Len(runs[i].predictions) = Len(kept)
                       /\ Len(dayOffsetPairs[i]) = Len(kept)
            /\ pc = "done" => report[1].cashEvents = events

C2_Witness ==
    /\ pc = "done" /\ RunCountOf >= 2 /\ RunLengthOf >= 1
    /\ \E i \in DOMAIN events : events[i].date < today
    /\ \E i \in DOMAIN events : events[i].date >= today
    /\ Len(report[1].cashEvents) > Len(runs[1].predictions)

\* The day of an instant: its time of day stripped.
StartOfDay(t) == t - (t % TicksPerDay)

\* C3 (as claimed): without variance an event dated today + k, today being
\* the day of the invocation at whatever time of day, adds its value to
\* balanceSeries[j] for every j >= k and to no j < k.
C3_ExactSchedule ==
    (pc = "done" /\ NoVariance /\ RunCountOf >= 1 /\ RunLengthOf >= 1) =>
        \A i \in 1..Len(runs), j \in 0..(RunLengthOf - 1) :
            runs[i].balanceSeries[j + 1] =
                StartingBalanceOf
                + SumSeq([e \in 1..Len(events) |->
                            LET k == (events[e].date - StartOfDay(runDate))
                                     \div TicksPerDay
                            IN  IF k >= 0 /\ k <= j THEN events[e].value ELSE 0])

\* The rounded day offsets of the predictions, run by run.
Offsets(pairsList) ==
    [i \in 1..Len(pairsList) |->
        [j \in 1..Len(pairsList[i]) |-> pairsList[i][j].dayOffset]]

Ordered(day) ==
    day.p10 <= day.p25 /\ day.p25 <= day.p50 /\ day.p50 <= day.p75
    /\ day.p75 <= day.p90

AllEqual(day) ==
    day.p10 = day.p25 /\ day.p25 = day.p50 /\ day.p50 = day.p75
    /\ day.p75 = day.p90

\* C5 (as claimed): every PercentileDay the reducer produces has
\* p10 <= p25 <= p50 <= p75 <= p90.
C5_PercentilesOrdered ==
    pc = "done" => \A d \in DOMAIN forecast : Ordered(forecast[d])

\* C6 (as claimed): without variance all balance series are identical and
\* every PercentileDay has p10 = p25 = p50 = p75 = p90.
C6_NoVarianceNoSpread ==
    (pc = "done" /\ NoVariance) =>
        /\ \A i, j \in 1..Len(runs) :
               runs[i].balanceSeries = runs[j].balanceSeries
        /\ \A d \in DOMAIN forecast : AllEqual(forecast[d])

\* C7 (as claimed): with a non-positive runCount or runLength the call fails
\* at once: it neither gets to the reducer nor returns a report.
C7_FailsFast ==
    (RunCountOf <= 0 \/ RunLengthOf <= 0) =>
        pc \notin {"reduce", "done"} /\ report = None

\* C8: a prediction whose rounded day offset is < 0 or >= runLength is
\* discarded: every balance series is the one obtained from the pairs of
\* the run within [0, runLength) alone.
C8_OutsideWindowDiscarded ==
    (pc \in {"reduce", "done"}) =>
        \A i \in 1..Len(runs) :
            runs[i].balanceSeries =
                BalanceSeries(
                    SelectSeq(dayOffsetPairs[i],
                              LAMBDA e : e.dayOffset >= 0
                                         /\ e.dayOffset < RunLengthOf),
                    RunLengthOf, StartingBalanceOf)

C8_Witness ==
    /\ pc = "done" /\ RunLengthOf >= 1
    /\ \E i \in 1..Len(runs) :
          /\ \E j \in DOMAIN dayOffsetPairs[i] :
                 dayOffsetPairs[i][j].dayOffset >= RunLengthOf
          /\ \E j \in DOMAIN dayOffsetPairs[i] :
                 dayOffsetPairs[i][j].dayOffset < 0
          /\ \E j \in DOMAIN dayOffsetPairs[i] :
                 /\ dayOffsetPairs[i][j].dayOffset >= 0
                 /\ dayOffsetPairs[i][j].dayOffset < RunLengthOf

\* The sum of the values of the pairs of a run that fall on day d.
DeltaOfDay(pairs, d) ==
    SumSeq([j \in 1..Len(pairs) |->
               IF pairs[j].dayOffset = d THEN pairs[j].value ELSE 0])

\* C9: the balance series of every run is the prefix sum of the per-day
\* deltas, the starting balance (0 by default, the same for every run)
\* added once: balance[0] = startingBalance + delta[0] and
\* balance[i] = balance[i-1] + delta[i].
C9_PrefixSums ==
    (pc \in {"reduce", "done"}) =>
        \A i \in 1..Len(runs) :
            LET b == runs[i].balanceSeries
                sb == Coalesce(opts.startingBalance, 0)
            IN  \A d \in 0..(Len(b) - 1) :
                    b[d + 1] = (IF d = 0 THEN sb ELSE b[d])
                               + DeltaOfDay(dayOffsetPairs[i], d)

C9_Witness ==
    /\ pc = "done" /\ RunLengthOf >= 2 /\ Len(runs) >= 2
    /\ opts.startingBalance = Some(5)
    /\ \E i \in 1..Len(runs) :
          \E j, k \in DOMAIN dayOffsetPairs[i] :
              /\ j # k
              /\ dayOffsetPairs[i][j].dayOffset = 0
              /\ dayOffsetPairs[i][k].dayOffset = 0
              /\ runs[i].balanceSeries[1] =
                     5 + dayOffsetPairs[i][j].value + dayOffsetPairs[i][k].value

Percentiles == {10, 25, 50, 75, 90}

PercentileOf(day, p) ==
    CASE p = 10 -> day.p10 [] p = 25 -> day.p25 [] p = 50 -> day.p50
      [] p = 75 -> day.p75 [] p = 90 -> day.p90

\* 100 times the linear interpolation between the order statistics around
\* idx = (p / 100) * (n - 1).
Interpolated100(sorted, p) ==
    LET idx100 == p * (Len(sorted) - 1)
        lo == idx100 \div 100
        w == idx100 % 100
        hi == IF w = 0 THEN lo ELSE lo + 1
    IN  sorted[lo + 1] * (100 - w) + sorted[hi + 1] * w

C11_EmptyEventsAllZeros ==
    (pc \in {"reduce", "done"} /\ events = <<>>) =>
        \A i \in 1..Len(runs) :
            /\ runs[i].predictions = <<>>
            /\ runs[i].balanceSeries = [d \in 1..Max(RunLengthOf, 0) |-> 0]

\* C11 (amended): with an empty event list there are runCount runs, every
\* run has no predictions and its balance series has length runLength and
\* holds the starting balance (0 unless the option is set) on every day.
C11_EmptyEventsFlat ==
    (pc \in {"reduce", "done"} /\ events = <<>>) =>
        /\ Len(runs) = Max(RunCountOf, 0)
        /\ \A i \in 1..Len(runs) :
            /\ runs[i].predictions = <<>>
            /\ runs[i].balanceSeries =
                   [d \in 1..Max(RunLengthOf, 0) |->
                       Coalesce(opts.startingBalance, 0)]

C11_Witness ==
    /\ pc = "done" /\ events = <<>>
    /\ RunCountOf = MaxRunCount /\ RunLengthOf = MaxRunLength
    /\ opts.startingBalance = Some(5)
    /\ runs[MaxRunCount].balanceSeries = [d \in 1..MaxRunLength |-> 5]

\* C12: every unset option is resolved to its default on its own (runCount
\* 20, runLength 60, dateVarianceDays 10, valueVariancePct 20,
\* startingBalance 0) and every option given is used as given: the
\* predictions, the runs and report.meta are those of the resolved values.
C12_DefaultsResolved ==
    pc = "done" =>
        LET rc == IF opts.runCount = None THEN 20 ELSE opts.runCount[1]
            rl == IF opts.runLength = None THEN 60 ELSE opts.runLength[1]
            dv == IF opts.dateVarianceDays = None
                  THEN 10 ELSE opts.dateVarianceDays[1]
            vv == IF opts.valueVariancePct = None
                  THEN 20 ELSE opts.valueVariancePct[1]
            sb == IF opts.startingBalance = None
                  THEN 0 ELSE opts.startingBalance[1]
            n == Len(NonPast(events, today)) * Max(rc, 0)
        IN  /\ report[1].meta.runCount = rc
            /\ report[1].meta.runLength = rl
            /\ Len(report[1].runs) = Max(rc, 0)
            /\ Len(predictions) = n
            /\ \E cut \in 0..n :
                   predictions =
                       GeneratePredictionsFn(
                           [events |-> events, runCount |-> rc,
                            dateVarianceDays |-> dv, valueVariancePct |-> vv,
                            seed |-> seed, today |-> today],
                           Readings(n, today, cut))
            /\ \A i \in 1..Len(runs) :
                   /\ Len(runs[i].balanceSeries) = Max(rl, 0)
                   /\ runs[i].balanceSeries =
                          BalanceSeries(dayOffsetPairs[i], rl, sb)

C12_Witness ==
    /\ pc = "done"
    /\ opts.runCount = None /\ opts.runLength = Some(1)
    /\ opts.dateVarianceDays = None /\ opts.valueVariancePct = Some(50)
    /\ opts.startingBalance = None
    /\ Len(events) = 2
    /\ report[1].meta.runCount = 20 /\ report[1].meta.runLength = 1
    /\ Len(runs) = 20 /\ Len(predictions) = 40
    /\ \E i \in DOMAIN predictions :
           predictions[i].occursOn \notin {events[e].date : e \in DOMAIN events}

\* C13: the report echoes the input events verbatim in cashEvents (same
\* elements in the same order, past events included) and has
\* runs[i].runIndex = i for every i in 0..runCount-1.
C13_EchoAndRunIndex ==
    pc = "done" =>
        /\ report[1].cashEvents = events
        /\ \A i \in 0..(RunCountOf - 1) : report[1].runs[i + 1].runIndex = i

C13_Witness ==
    /\ pc = "done" /\ RunCountOf = MaxRunCount
    /\ Len(events) = 3
    /\ \E i \in DOMAIN events : events[i].date < today
    /\ events[1].date > events[3].date
    /\ report[1].cashEvents[3] = events[3]
    /\ Len(predictions) < Len(events) * RunCountOf
    /\ report[1].runs[MaxRunCount].runIndex = MaxRunCount - 1

\* The number of predictions of run index r.
CountOfRun(preds, r) == Len(SelectSeq(preds, LAMBDA p : p.run = r))

\* C14: the generator produces exactly one prediction for each pair of an
\* event that is not past and a run index in [0, runCount): the total is
\* (number of such events) x runCount, every run index occurs once per such
\* event and no other run index occurs; an empty event list or runCount = 0
\* yields no prediction.
C14_OnePredictionPerPair ==
    (pc \in {"compute", "reduce", "done"}) =>
        LET kept == NonPast(events, today)
            rc == Max(RunCountOf, 0)
        IN  /\ Len(predictions) = Len(kept) * rc
            /\ \A r \in 0..(rc - 1) : CountOfRun(predictions, r) = Len(kept)
            /\ \A i \in DOMAIN predictions :
                   predictions[i].run \in 0..(rc - 1)
            /\ \A e \in DOMAIN kept, r \in 0..(rc - 1) :
                   predictions[(e - 1) * rc + r + 1].run = r
            /\ (events = <<>> \/ RunCountOf = 0) => predictions = <<>>

C14_Witness ==
    /\ pc = "compute" /\ RunCountOf = MaxRunCount
    /\ Len(events) = 3 /\ Len(NonPast(events, today)) = 2
    /\ Len(predictions) = 2 * MaxRunCount
    /\ CountOfRun(predictions, MaxRunCount - 1) = 2

\* C15: with a seed, the jittered value and date generated for (run, event)
\* are those the generator produces for that event alone with
\* runCount = run + 1: the other events, the position of the event in the
\* list and the runCount play no part.
C15_JitterOfSeedRunEvent ==
    (pc \in {"compute", "reduce", "done"} /\ seed # None) =>
        LET kept == NonPast(events, today)
            rc == Max(RunCountOf, 0)
        IN  \A e \in DOMAIN kept, r \in 0..(rc - 1) :
                LET alone == GeneratePredictionsFn(
                                 [cfgOf(opts, seed, <<kept[e]>>, today)
                                     EXCEPT !.runCount = r + 1],
                                 Readings(r + 1, today, r + 1))
                IN  predictions[(e - 1) * rc + r + 1] = alone[r + 1]

C15_Witness ==
    /\ pc = "done" /\ seed # None /\ RunCountOf = MaxRunCount
    /\ Resolve(opts).valueVariancePct > 0
    /\ Len(NonPast(events, today)) >= 2
    /\ predictions[MaxRunCount + 1].value # predictions[2 * MaxRunCount].value
    /\ predictions[MaxRunCount].occursOn # predictions[MaxRunCount - 1].occursOn

\* The number of jitter functions applied so far.
Applied == (IF jitter.value = None THEN 0 ELSE 1)
           + (IF jitter.date = None THEN 0 ELSE 1)

\* C16: applyValueJitter(v, p) consumes exactly one sample r and returns
\* v + v * (2 * (p / 100) * r - p / 100): the result lies within
\* [v - |v| * |p| / 100, v + |v| * |p| / 100], and is exactly v when p = 0
\* or v = 0.
C16_ValueJitter ==
    /\ jitter.draws = Applied
    /\ jitter.value # None =>
           LET v == jitter.v
               p == jitter.p
               k == jitter.valueR[1]
               out == jitter.value[1]
           IN  /\ k \in 0..(RandRes - 1)
               /\ 100 * RandRes * out
                      = 100 * RandRes * v
                        + v * (2 * p * k - p * RandRes)
               /\ 100 * out >= 100 * v - Abs(v) * Abs(p)
               /\ 100 * out <= 100 * v + Abs(v) * Abs(p)
               /\ (p = 0 \/ v = 0) => out = v

C16_Witness ==
    /\ jitter.value # None /\ jitter.draws = 1
    /\ jitter.v = -20 /\ jitter.p = -50 /\ jitter.valueR = Some(0)
    /\ jitter.value = Some(-30)

\* The whole number of days jitter.date is away from jitter.d.
DeltaDays == (jitter.date[1] - jitter.d) \div TicksPerDay

\* delta is x = m * (2 * r - 1) rounded to the nearest integer, ties up.
IsRounded(delta, numer, denom, k) ==
    /\ (2 * delta - 1) * RandRes * denom <= 2 * numer * (2 * k - RandRes)
    /\ 2 * numer * (2 * k - RandRes) < (2 * delta + 1) * RandRes * denom

\* C17 (as claimed): applyDateJitter(d, m) consumes exactly one sample and
\* returns d shifted by delta = round(2 * m * r - m) whole days with
\* |delta| <= |m|; with m = 0 the date is unchanged.
C17_DateJitterWithinM ==
    /\ jitter.draws = Applied
    /\ jitter.date # None =>
           /\ jitter.date[1] = jitter.d + DeltaDays * TicksPerDay
           /\ IsRounded(DeltaDays, jitter.numer, jitter.denom, jitter.dateR[1])
           /\ Abs(DeltaDays) * jitter.denom <= Abs(jitter.numer)
           /\ jitter.numer = 0 => jitter.date[1] = jitter.d

\* C17 (amended): ... with |delta| <= ceil(|m|), which is |m| when m is a
\* whole number; with m = 0 the date is unchanged.
C17_DateJitterWithinCeilM ==
    /\ jitter.draws = Applied
    /\ jitter.date # None =>
           /\ jitter.date[1] = jitter.d + DeltaDays * TicksPerDay
           /\ IsRounded(DeltaDays, jitter.numer, jitter.denom, jitter.dateR[1])
           /\ (Abs(DeltaDays) - 1) * jitter.denom < Abs(jitter.numer)
              \/ DeltaDays = 0
           /\ jitter.numer % jitter.denom = 0 =>
                  Abs(DeltaDays) * jitter.denom <= Abs(jitter.numer)
           /\ jitter.numer = 0 => jitter.date[1] = jitter.d

C17_Witness ==
    /\ jitter.date # None /\ jitter.value = None /\ jitter.draws = 1
    /\ jitter.numer = 20 /\ jitter.dateR = Some(0)
    /\ jitter.date = Some(jitter.d - 2 * TicksPerDay)

\* C18: the reducer returns an empty sequence when given no runs, and
\* otherwise one PercentileDay per index of the first run's balance series,
\* in ascending day order 0, 1, 2, ...
C18_ForecastShape ==
    pc = "done" =>
        /\ runs = <<>> => forecast = <<>>
        /\ runs # <<>> =>
               /\ Len(forecast) = Len(runs[1].balanceSeries)
               /\ \A i \in DOMAIN forecast : forecast[i].day = i - 1

C18_Witness ==
    /\ pc = "done" /\ runs = RaggedRuns
    /\ Len(runs[2].balanceSeries) > Len(runs[1].balanceSeries)
    /\ Len(forecast) = 2
    /\ forecast[1].day = 0 /\ forecast[2].day = 1

\* C19 (as claimed): if every run has the same balance v on a day, the
\* reducer returns p10 = p25 = p50 = p75 = p90 = v for that day, whatever v
\* and the number of runs.
C19_IdenticalValues ==
    pc = "done" =>
        \A d \in DOMAIN forecast :
            (\A i, j \in 1..Len(runs) :
                 runs[i].balanceSeries[d] = runs[j].balanceSeries[d]) =>
                \A p \in Percentiles :
                    PercentileOf(forecast[d], p) = runs[1].balanceSeries[d]

\* The stage that follows each stage of a call.
StageAfter ==
    [idle |-> {"generate"}, generate |-> {"compute"},
     compute |-> {"reduce", "failed"}, reduce |-> {"done"},
     done |-> {"idle"}, failed |-> {"idle"}]

\* All runCount runs are there, each with its whole balance series.
RunsComplete ==
    /\ Len(runs) = Max(RunCountOf, 0)
    /\ \A i \in 1..Len(runs) :
           Len(runs[i].balanceSeries) = Max(RunLengthOf, 0)

\* C20: in every call the stages run in the order prediction generation,
\* run aggregation, percentile reduction, and the reduction starts (and
\* writes the forecast) only when the balance series of all runCount runs
\* are complete, which it leaves as they are.
C20_StageOrder ==
    [][/\ pc' # pc => pc' \in StageAfter[pc]
       /\ predictions' # predictions => (pc = "generate" \/ pc' = "idle")
       /\ runs' # runs => (pc = "compute" \/ pc' = "idle")
       /\ pc' = "reduce" => RunsComplete'
       /\ (forecast' # forecast /\ pc' # "idle") =>
              (pc = "reduce" /\ RunsComplete /\ runs' = runs)]_vars

C20_Witness ==
    /\ pc = "done" /\ RunCountOf = MaxRunCount /\ RunLengthOf = MaxRunLength
    /\ predictions # <<>> /\ RunsComplete
    /\ Len(forecast) = MaxRunLength

\* The positions in preds of the predictions of run index r, and the k-th
\* of them in input order.
PositionsOfRun(preds, r) == {i \in DOMAIN preds : preds[i].run = r}

NthPositionOfRun(preds, r, k) ==
    CHOOSE i \in PositionsOfRun(preds, r) :
        Cardinality({j \in PositionsOfRun(preds, r) : j < i}) = k - 1

\* C21: the grouping partitions the predictions: the map has one key per
\* run index present (none for an empty input), the group of r holds the
\* predictions of run r, each once, in input order, and a run index
\* without predictions still gets a balance series of length runLength.
C21_GroupingPartitions ==
    (pc \in {"compute", "reduce", "done"}) =>
        /\ DOMAIN byRun = {predictions[i].run : i \in DOMAIN predictions}
        /\ predictions = <<>> => DOMAIN byRun = {}
        /\ \A r \in DOMAIN byRun :
               /\ Len(byRun[r]) = Cardinality(PositionsOfRun(predictions, r))
               /\ \A k \in 1..Len(byRun[r]) :
                      byRun[r][k] =
                          predictions[NthPositionOfRun(predictions, r, k)]
        /\ pc \in {"reduce", "done"} =>
               \A i \in 0..(RunCountOf - 1) :
                   i \notin DOMAIN byRun =>
                       /\ runs[i + 1].predictions = <<>>
                       /\ Len(runs[i + 1].balanceSeries) = Max(RunLengthOf, 0)

C21_Witness ==
    /\ pc = "done" /\ RunCountOf = MaxRunCount
    /\ Len(predictions) = 2 * MaxRunCount
    /\ DOMAIN byRun = 0..(MaxRunCount - 1)
    /\ byRun[1] = <<predictions[2], predictions[MaxRunCount + 2]>>
    /\ predictions[2] # predictions[MaxRunCount + 2]

\* The day the claim gives a prediction x ticks from now in a window of
\* runLength days: day d when d - 0.5 <= x / TicksPerDay < d + 0.5, none
\* below -0.5 and none at or above runLength - 0.5.
ClaimedDay(x, runLength) ==
    IF 2 * x < 0 - TicksPerDay \/ 2 * x >= (2 * runLength - 1) * TicksPerDay
    THEN None
    ELSE Some(CHOOSE d \in 0..(runLength - 1) :
                  /\ (2 * d - 1) * TicksPerDay <= 2 * x
                  /\ 2 * x < (2 * d + 1) * TicksPerDay)

\* C22: the aggregator buckets a prediction by its day offset from now
\* rounded to the nearest integer: an offset in [-0.5, 0.5) goes to day 0,
\* one below -0.5 is discarded, one in [runLength - 1.5, runLength - 0.5)
\* goes to the last day, one at or above runLength - 0.5 is discarded.
C22_RoundedBuckets ==
    (pc \in {"reduce", "done"}) =>
        \A i \in 1..Len(runs), d \in 0..(RunLengthOf - 1) :
            runs[i].balanceSeries[d + 1] =
                StartingBalanceOf
                + SumSeq([j \in 1..Len(runs[i].predictions) |->
                            LET p == runs[i].predictions[j]
                                day == ClaimedDay(p.occursOn - now, RunLengthOf)
                            IN  IF day # None /\ day[1] <= d
                                THEN p.value ELSE 0])

C22_Witness ==
    /\ pc = "done" /\ now = 1 /\ RunLengthOf = MaxRunLength
    /\ Len(runs[1].predictions) = 2
    /\ 2 * (runs[1].predictions[1].occursOn - now) = 0 - TicksPerDay
    /\ 2 * (runs[1].predictions[2].occursOn - now)
           = (2 * MaxRunLength - 1) * TicksPerDay
    /\ runs[1].balanceSeries[1] = runs[1].predictions[1].value
    /\ runs[1].balanceSeries[MaxRunLength] = runs[1].predictions[1].value

\* C23 (as claimed): within one call the day offset of every prediction is
\* taken from the instant the generator read as today, whenever during the
\* call the prediction is processed.
C23_OneToday ==
    (pc \in {"reduce", "done"}) =>
        \A i \in 1..Len(runs) :
            \A j \in 1..Len(runs[i].predictions) :
                dayOffsetPairs[i][j].dayOffset =
                    RoundedDaysBetween(today, runs[i].predictions[j].occursOn)

\* C24 (as claimed): without a seed, one seed value is chosen per call and
\* used for every (run, event) pair: the predictions are those of a single
\* reading of the clock.
C24_OneSeedPerCall ==
    (pc \in {"compute", "reduce", "done"} /\ seed = None) =>
        LET n == Len(predictions)
        IN  \E t \in 0..MaxNow :
                predictions =
                    GeneratePredictionsFn(cfgOf(opts, seed, events, today),
                                          Readings(n, t, n))

\* C25 (as claimed): the key is injective: two different triples
\* (seed, run, event id) never have the same key string.
C25_KeyInjective ==
    \A a, b \in keys :
        a.key = b.key => (a.seed = b.seed /\ a.run = b.run /\ a.ID = b.ID)

\* The predictions of the call had it been made with other variances.
PredictionsWith(dateVarianceDays, valueVariancePct) ==
    GeneratePredictionsFn(
        [cfgOf(opts, seed, events, today) EXCEPT
            !.dateVarianceDays = dateVarianceDays,
            !.valueVariancePct = valueVariancePct],
        Readings(Len(predictions), today, Len(predictions)))

\* C26: for a fixed seed, events and runCount, the jittered date of every
\* prediction is the same whatever valueVariancePct is, and its jittered
\* value the same whatever dateVarianceDays is: the first sample of the
\* source of (run, event) makes the value and the second the date.
C26_ValueAndDateIndependent ==
    (pc \in {"compute", "reduce", "done"} /\ seed # None) =>
        LET dv == Resolve(opts).dateVarianceDays
            vv == Resolve(opts).valueVariancePct
        IN  /\ \A other \in {0, 50, 100} :
                   LET alt == PredictionsWith(dv, other)
                   IN  /\ Len(alt) = Len(predictions)
                       /\ \A i \in DOMAIN predictions :
                              alt[i].occursOn = predictions[i].occursOn
            /\ \A other \in {0, 1, 2} :
                   LET alt == PredictionsWith(other, vv)
                   IN  /\ Len(alt) = Len(predictions)
                       /\ \A i \in DOMAIN predictions :
                              alt[i].value = predictions[i].value
            /\ \A i \in DOMAIN predictions :
                   LET kept == NonPast(events, today)
                       rc == Max(RunCountOf, 0)
                       event == kept[((i - 1) \div rc) + 1]
                       rng == RandomMake(Key(seed[1], predictions[i].run, event.ID))
                       first == RandomNext(rng)
                       second == RandomNext(first.rng)
                   IN  /\ predictions[i].value =
                              applyValueJitter(event.value, vv, first.r)
                       /\ predictions[i].occursOn =
                              applyDateJitter(event.date, dv, second.r)

C26_Witness ==
    /\ pc = "done" /\ seed # None
    /\ Resolve(opts).dateVarianceDays = 1
    /\ Len(predictions) >= 2
    /\ \E i \in DOMAIN predictions :
           /\ PredictionsWith(1, 0)[i].value # predictions[i].value
           /\ PredictionsWith(0, 50)[i].occursOn # predictions[i].occursOn
           /\ PredictionsWith(1, 0)[i].occursOn = predictions[i].occursOn

\* C27 (as claimed): every percentile of every day lies between the
\* smallest and the largest balance of the runs on that day.
C27_WithinMinMax ==
    pc = "done" =>
        \A d \in DOMAIN forecast, p \in Percentiles :
            LET sorted == BalancesAtDay(runs, d - 1)
            IN  /\ sorted[1] <= PercentileOf(forecast[d], p)
                /\ PercentileOf(forecast[d], p) <= sorted[Len(sorted)]

\* C28: in the report runs[i].predictions holds exactly the predictions
\* generated with run = i, in the order generated, one per event that is
\* not past, those outside the forecast window included.
C28_RunPredictions ==
    pc = "done" =>
        \A i \in 1..Len(report[1].runs) :
            LET mine == report[1].runs[i].predictions
                idx == PositionsOfRun(predictions, i - 1)
            IN  /\ Len(mine) = Len(NonPast(events, today))
                /\ Len(mine) = Cardinality(idx)
                /\ \A k \in 1..Len(mine) :
                       /\ mine[k].run = i - 1
                       /\ mine[k] =
                              predictions[NthPositionOfRun(predictions, i - 1, k)]

C28_Witness ==
    /\ pc = "done" /\ RunCountOf >= 2 /\ RunLengthOf = 1
    /\ \E i \in 1..Len(runs) :
           /\ Len(report[1].runs[i].predictions) = 2
           /\ \E j \in DOMAIN dayOffsetPairs[i] :
                  /\ dayOffsetPairs[i][j].dayOffset >= RunLengthOf
                  /\ dayOffsetPairs[i][j].value # 0
           /\ report[1].runs[i].balanceSeries[1] = 0

\* C29 (as claimed): saveSimulationReportToFS returns the file path only
\* if the report content has been written to that path (after a NotFound
\* the directory is made and the write is done again), and any other write
\* failure yields a SaveReportError.
C29_SavedWhenReported ==
    (io.op = "save") =>
        /\ io.outcome \in {"ok", "SaveReportError"}
        /\ io.outcome = "ok" =>
               /\ io.result = Some(io.location)
               /\ [path |-> io.location, content |-> io.json] \in disk.files
               /\ io.location.dir \in disk.dirs
        /\ io.outcome = "SaveReportError" => io.result = None

\* ------------------------------------------------ parseCashEventsFromCsv
\* A CSV file is its header line and its record lines, each a sequence of
\* cells; <<>> is an empty line.
MaxRows == 2        \* most record lines of a CSV file

CsvFilenames == {"cash-events.csv", "missing.csv"}
ReadFaults == {"none", "PermissionDenied"}
CsvHeaders ==
    {<<"ID", "label", "value", "date">>, <<"ID", "label", "value">>}
CsvRecords ==
    {<<"a", " rent", "-20", "2025-01-01">>,
     <<" ", "pay", "10", "2025-01-02">>,
     <<"b", "pay", "ten", "soon">>,
     <<"c", "pay", "5">>,
     <<>>}
CsvFiles ==
    [header : CsvHeaders,
     records : UNION {[1..n -> CsvRecords] : n \in 0..MaxRows}]

\* The trim option of csv.parse, on the cells of CsvRecords.
Trim(cell) ==
    CASE cell = " " -> ""
      [] cell = " rent" -> "rent"
      [] OTHER -> cell

ColumnOf(header, c) == CHOOSE i \in 1..Len(header) : header[i] = c

\* csv.parse(csvStr, {columns: true, skip_empty_lines: true, trim: true}):
\* the first line names the columns, empty lines are skipped, every cell is
\* a trimmed string, and a record with another number of cells than the
\* header throws.
CsvParse(csvStr) ==
    LET lines == SelectSeq(csvStr.records, LAMBDA rec : rec # <<>>)
        cols == {csvStr.header[i] : i \in 1..Len(csvStr.header)}
    IN  IF \E i \in 1..Len(lines) : Len(lines[i]) # Len(csvStr.header)
        THEN [thrown |-> TRUE, rows |-> <<>>]
        ELSE [thrown |-> FALSE,
              rows |-> [i \in 1..Len(lines) |->
                          [c \in cols |->
                              [type |-> "string",
                               text |-> Trim(lines[i][ColumnOf(csvStr.header, c)])]]]]

\* Schema.NonEmptyTrimmedString, Schema.Number and Schema.DateFromString on
\* a field of a row: Schema.Number takes a number and no string.
NonEmptyTrimmedString(row, c) ==
    /\ c \in DOMAIN row
    /\ row[c].type = "string"
    /\ row[c].text # "" /\ Trim(row[c].text) = row[c].text
SchemaNumber(row, c) == c \in DOMAIN row /\ row[c].type = "number"
DateFromString(row, c) == c \in DOMAIN row /\ row[c].type = "string"

\* Schema.decodeUnknownSync(CashEventSchema)(row): the event, or None where
\* it throws.
DecodeCashEvent(row) ==
    IF /\ NonEmptyTrimmedString(row, "ID")
       /\ NonEmptyTrimmedString(row, "label")
       /\ SchemaNumber(row, "value")
       /\ DateFromString(row, "date")
    THEN Some([ID |-> row["ID"].text, label |-> row["label"].text,
               value |-> row["value"].num, date |-> row["date"].text])
    ELSE None

\* A forEach that leaves out the rows that do not decode.
RECURSIVE DecodeRowsSkipping(_, _)
DecodeRowsSkipping(rows, acc) ==
    IF rows = <<>> THEN [outcome |-> "ok", data |-> None, events |-> Some(acc)]
    ELSE LET e == DecodeCashEvent(Head(rows))
         IN  DecodeRowsSkipping(Tail(rows),
                                IF e = None THEN acc ELSE Append(acc, e[1]))

\* Effect.forEach(rows, row => Effect.try(decode)): the rows in order, the
\* first that does not decode fails the whole with CashEventDecodeError.
RECURSIVE DecodeRows(_, _)
DecodeRows(rows, acc) ==
    IF rows = <<>> THEN [outcome |-> "ok", data |-> None, events |-> Some(acc)]
    ELSE LET e == DecodeCashEvent(Head(rows))
         IN  IF e = None
             THEN [outcome |-> "CashEventDecodeError",
                   data |-> Some(Head(rows)), events |-> None]
             ELSE DecodeRows(Tail(rows), Append(acc, e[1]))

\* fs.readFileString(filename): the content, or None where it fails.
ReadFileString(d, filename, fault) ==
    IF fault # "none" \/ ~ \E f \in d.files : f.path = filename THEN None
    ELSE Some((CHOOSE f \in d.files : f.path = filename).content)

parseCashEventsFromCsv(d, filename, fault) ==
    LET csvStr == ReadFileString(d, filename, fault)
    IN  IF csvStr = None
        THEN [outcome |-> "CsvFileNotFoundError", data |-> None,
              events |-> None]
        ELSE LET parsed == CsvParse(csvStr[1])
             IN  IF parsed.thrown
                 THEN [outcome |-> "defect", data |-> None, events |-> None]
                 ELSE DecodeRows(parsed.rows, <<>>)

InitParse ==
    /\ now = 0
    /\ pc = "parse"
    /\ events = <<>> /\ opts = NoOptions /\ seed = None
    /\ steady = TRUE /\ prev = None
    /\ jitter = NoJitter /\ keys = {} /\ io = NoCall
    /\ \E files \in {{}} \cup {{[path |-> "cash-events.csv", content |-> c]} :
                                 c \in CsvFiles} :
           disk = [dirs |-> {}, files |-> files]
    /\ Blank

\* parseCashEventsFromCsv(csvPath) is called and returns or fails.
ParseCsv(filename, fault) ==
    /\ pc = "parse" /\ io = NoCall
    /\ LET res == parseCashEventsFromCsv(disk, filename, fault)
       IN  io' = [op |-> "parse", filename |-> filename, fault |-> fault,
                  outcome |-> res.outcome, data |-> res.data,
                  events |-> res.events]
    /\ UNCHANGED <<now, pc, events, opts, seed, runDate, today, predictions,
                   byRun, dayOffsetPairs, runs, forecast, report, error,
                   steady, prev, jitter, keys, disk>>

\* Effect.andThen(events => Simulation.generate(events, ...)): runs on the
\* events of a parse that succeeded, and not after a failure.
Simulate ==
    /\ pc = "parse" /\ io # NoCall
    /\ io.op = "parse" /\ io.outcome = "ok"
    /\ events' = io.events[1]
    /\ pc' = "simulating"
    /\ UNCHANGED <<now, opts, seed, runDate, today, predictions, byRun,
                   dayOffsetPairs, runs, forecast, report, error, steady,
                   prev, jitter, keys, disk, io>>

NextParse ==
    \/ \E filename \in CsvFilenames, fault \in ReadFaults :
          ParseCsv(filename, fault)
    \/ Simulate
    \/ Finish

SpecParse == InitParse /\ [][NextParse]_vars

\* What the read and the parse of the call recorded in io gave.
ReadOf == ReadFileString(disk, io.filename, io.fault)
RowsOf == CsvParse(ReadOf[1])

====
